---- MODULE Spec2Model ----
(***************************************************************************)
(* A model of glerminal's render orchestration (src/terminal.rs,           *)
(* src/display.rs) and of its font loader (src/font.rs).                   *)
(*                                                                         *)
(* Terminal and Display are modelled field by field.  Every call into the  *)
(* graphics backend (renderer::clear, renderer::draw,                      *)
(* renderer::update_viewport, renderer::set_debug) and the window's        *)
(* swap_buffers is recorded, in program order, in `calls`, which holds the *)
(* calls issued by the most recent operation; `lastOp` holds that          *)
(* operation and its arguments; `ret` is TRUE when that operation was a    *)
(* refresh() that returned true.                                           *)
(*                                                                         *)
(* f32 aspect ratios and matrix entries are exact fractions <<n, d>> in    *)
(* lowest terms, so that equal floats are equal tuples.                    *)
(***************************************************************************)
EXTENDS Integers, Sequences, FiniteSets, TLC

VARIABLES
    \* ---- struct Terminal (src/terminal.rs:143-155)
    display,                  \* Option<Display>; [some |-> FALSE] is None
    program,
    background_program,
    debug_program,
    debug,
    running,
    headless,
    frame_counter,            \* [frames, last_check, fps]
    text_buffer_aspect_ratio,
    \* ---- environment
    debug_assertions,         \* the build: cfg(debug_assertions)
    now,                      \* SystemTime::now(), in ticks since construction
    \* ---- observation of the last operation
    lastOp,
    calls,
    ret,
    panicked,
    \* ---- font loading (src/font.rs)
    description,              \* the parsed .sfl description (BMFont contents)
    atlas,                    \* the decoded png: info and buffer
    fontLoad,                 \* result of Font::load
    fontRaw,                  \* result of Font::load_raw
    lookup                    \* the last Font::get_character call and its result

termVars == <<display, program, background_program, debug_program, debug, running,
              headless, frame_counter, text_buffer_aspect_ratio, debug_assertions,
              now, lastOp, calls, ret, panicked>>
fontVars == <<description, atlas, fontLoad, fontRaw, lookup>>
vars == <<display, program, background_program, debug_program, debug, running,
          headless, frame_counter, text_buffer_aspect_ratio, debug_assertions,
          now, lastOp, calls, ret, panicked, description, atlas, fontLoad, fontRaw,
          lookup>>

-----------------------------------------------------------------------------
(* Bounds *)

\* events delivered by one poll_events
MaxEvents == 1
\* Resized events delivered by one poll_events while drawing is checked
MaxResizes == 2
\* buffers passed to one draw_multiple
MaxBuffers == 2
\* glyph records in one font description
MaxChars == 2
\* width and height of the atlas image, in pixels
AtlasWidth == 4
AtlasHeight == 4
\* refresh() calls between two commits of the frame counter
MaxFrames == 3
\* clock ticks the model lets pass
MaxTime == 7
\* clock resolution
TicksPerSecond == 2

-----------------------------------------------------------------------------
(* Fractions *)

RECURSIVE GCD(_, _)
GCD(a, b) == IF b = 0 THEN a ELSE GCD(b, a % b)

\* n/d in lowest terms (n >= 0, d > 0)
Frac(n, d) == LET g == GCD(n, d) IN <<n \div g, d \div g>>

-----------------------------------------------------------------------------
(* Input domains *)

Keys == {"F3"}

\* window sizes a Resized event may carry
Sizes == {<<2, 2>>, <<4, 2>>}

\* dimensions given to TerminalBuilder::with_dimensions
InitialDimensions == {<<4, 2>>}

\* TextBuffer as draw() sees it: the two optional meshes and the aspect ratio
TextBuffers ==
    { [mesh |-> TRUE,  background_mesh |-> TRUE,  aspect_ratio |-> <<1, 1>>],
      [mesh |-> TRUE,  background_mesh |-> TRUE,  aspect_ratio |-> <<2, 1>>],
      [mesh |-> FALSE, background_mesh |-> FALSE, aspect_ratio |-> <<1, 1>>],
      [mesh |-> TRUE,  background_mesh |-> FALSE, aspect_ratio |-> <<1, 1>>],
      [mesh |-> FALSE, background_mesh |-> TRUE,  aspect_ratio |-> <<1, 1>>] }

Event(type, dims, keycode, pressed) ==
    [type |-> type, dims |-> dims, keycode |-> keycode, pressed |-> pressed]

\* WindowEvent::{Closed, Resized, KeyboardInput}
Events ==
    {Event("Closed", <<0, 0>>, "none", FALSE)}
    \cup {Event("Resized", s, "none", FALSE) : s \in Sizes}
    \cup {Event("KeyboardInput", <<0, 0>>, k, p) : k \in Keys, p \in BOOLEAN}

SeqsUpTo(S, n) == UNION {[1..k -> S] : k \in 0..n}

Call(fn, args) == [fn |-> fn, args |-> args]

-----------------------------------------------------------------------------
(* renderer and input: collaborators of terminal.rs and display.rs *)

\* renderer::create_proj_matrix: letterboxes the window to the target ratio;
\* the matrix is represented by the two overflow margins it is built from
CreateProjMatrix(dims, ratio) ==
    LET w == dims[1]
        h == dims[2]
        n == ratio[1]
        d == ratio[2]
    IN  IF h * n < w * d
        THEN [overflow_width |-> Frac(w * d - h * n, h * n), overflow_height |-> <<0, 1>>]
        ELSE [overflow_width |-> <<0, 1>>, overflow_height |-> Frac(h * n - w * d, w * d)]

\* renderer::create_program: a fresh non-zero handle per shader pair
CreateProgram(shader) ==
    CASE shader = "FRAG_SHADER" -> 1
      [] shader = "BG_FRAG_SHADER" -> 2
      [] shader = "DEBUG_FRAG_SHADER" -> 3

\* Input::new
InputNew == [pressed |-> {}, just_pressed |-> {}]

\* Input::clear_just_lists
ClearJustLists(input) == [input EXCEPT !.just_pressed = {}]

\* Input::update_virtual_keycode
UpdateVirtualKeycode(input, keycode, pressed) ==
    IF pressed
    THEN IF keycode \in input.pressed
         THEN input
         ELSE [pressed |-> input.pressed \cup {keycode},
               just_pressed |-> input.just_pressed \cup {keycode}]
    ELSE [input EXCEPT !.pressed = @ \ {keycode}]

\* Input::was_just_pressed
WasJustPressed(input, keycode) == keycode \in input.just_pressed

-----------------------------------------------------------------------------
(* struct Display (src/display.rs) *)

NoDisplay == [some |-> FALSE]

\* Display::new
DisplayNew(dimensions) ==
    LET aspect_ratio == Frac(dimensions[1], dimensions[2])
    IN  [some |-> TRUE,
         input |-> InputNew,
         aspect_ratio |-> aspect_ratio,
         proj_matrix |-> CreateProjMatrix(dimensions, aspect_ratio),
         width |-> dimensions[1],
         height |-> dimensions[2]]

\* update_view handing the viewport the dimensions in the wrong order
UpdateViewSwapped(d) ==
    [display |-> [d EXCEPT !.proj_matrix =
                      CreateProjMatrix(<<d.width, d.height>>, d.aspect_ratio)],
     calls |-> <<Call("update_viewport", <<d.height, d.width>>)>>]

\* Display::update_view: the new display and the backend calls issued
UpdateView(d) ==
    [display |-> [d EXCEPT !.proj_matrix =
                      CreateProjMatrix(<<d.width, d.height>>, d.aspect_ratio)],
     calls |-> <<Call("update_viewport", <<d.width, d.height>>)>>]

\* Display::get_aspect_ratio
GetAspectRatio(d) == d.aspect_ratio

\* set_aspect_ratio without the update_view call
SetAspectRatioStale(d, aspect_ratio) ==
    [display |-> [d EXCEPT !.aspect_ratio = aspect_ratio], calls |-> <<>>]

\* Display::set_aspect_ratio
SetAspectRatio(d, aspect_ratio) ==
    UpdateView([d EXCEPT !.aspect_ratio = aspect_ratio])

\* the closure keeping the first size polled
RECURSIVE PollEventsFirstSize(_, _)
PollEventsFirstSize(st, events) ==
    IF events = <<>> THEN st
    ELSE LET e == Head(events)
             st1 == CASE e.type = "Closed" -> [st EXCEPT !.running = FALSE]
                      [] e.type = "Resized" /\ st.dimensions = <<>> ->
                            [st EXCEPT !.dimensions = e.dims]
                      [] e.type = "KeyboardInput" ->
                            [st EXCEPT !.input =
                                UpdateVirtualKeycode(@, e.keycode, e.pressed)]
                      [] OTHER -> st
         IN  PollEventsFirstSize(st1, Tail(events))

\* the closure given to poll_events, applied to the polled events in order;
\* st = [running, dimensions, input], dimensions = <<>> is None
RECURSIVE PollEvents(_, _)
PollEvents(st, events) ==
    IF events = <<>> THEN st
    ELSE LET e == Head(events)
             st1 == CASE e.type = "Closed" -> [st EXCEPT !.running = FALSE]
                      [] e.type = "Resized" -> [st EXCEPT !.dimensions = e.dims]
                      [] e.type = "KeyboardInput" ->
                            [st EXCEPT !.input =
                                UpdateVirtualKeycode(@, e.keycode, e.pressed)]
                      [] OTHER -> st
         IN  PollEvents(st1, Tail(events))

\* Display::refresh: the new display, the calls issued and the value returned
DisplayRefresh(d, events) ==
    LET st == PollEvents([running |-> TRUE, dimensions |-> <<>>,
                          input |-> ClearJustLists(d.input)], events)
        d1 == [d EXCEPT !.input = st.input]
        swap == <<Call("swap_buffers", <<>>)>>
    IN  IF st.dimensions # <<>>
        THEN LET uv == UpdateView([d1 EXCEPT !.width = st.dimensions[1],
                                            !.height = st.dimensions[2]])
             IN  [display |-> uv.display, calls |-> swap \o uv.calls,
                  running |-> st.running]
        ELSE [display |-> d1, calls |-> swap, running |-> st.running]

-----------------------------------------------------------------------------
(* struct FrameCounter (src/terminal.rs) *)

\* FrameCounter::new
FrameCounterNew(t) == [frames |-> 0, last_check |-> t, fps |-> 0]

\* FrameCounter::update publishing the tally of the calls before this one
FrameCounterUpdateBeforeCount(fc, t) ==
    IF t - fc.last_check > TicksPerSecond
    THEN [frames |-> 0, last_check |-> t, fps |-> fc.frames]
    ELSE [fc EXCEPT !.frames = fc.frames + 1]

\* FrameCounter::update committing from one full second on
FrameCounterUpdateFromOneSecond(fc, t) ==
    LET frames == fc.frames + 1
    IN  IF t - fc.last_check >= TicksPerSecond
        THEN [frames |-> 0, last_check |-> t, fps |-> frames]
        ELSE [fc EXCEPT !.frames = frames]

\* FrameCounter::update at clock reading t; Duration::from_secs(1) is
\* TicksPerSecond ticks
FrameCounterUpdate(fc, t) ==
    LET frames == fc.frames + 1
    IN  IF t - fc.last_check > TicksPerSecond
        THEN [frames |-> 0, last_check |-> t, fps |-> frames]
        ELSE [fc EXCEPT !.frames = frames]

\* FrameCounter::get_fps
GetFps(fc) == fc.fps

-----------------------------------------------------------------------------
(* struct Terminal (src/terminal.rs) *)

\* Terminal::new leaving the debug program at the placeholder
NewProgramsNoDebug(hl) ==
    IF hl
    THEN [program |-> 0, background_program |-> 0, debug_program |-> 0]
    ELSE [program |-> CreateProgram("FRAG_SHADER"),
          background_program |-> CreateProgram("BG_FRAG_SHADER"),
          debug_program |-> 0]

\* Terminal::new: the three program handles
NewPrograms(hl) ==
    IF hl
    THEN [program |-> 0, background_program |-> 0, debug_program |-> 0]
    ELSE [program |-> CreateProgram("FRAG_SHADER"),
          background_program |-> CreateProgram("BG_FRAG_SHADER"),
          debug_program |-> CreateProgram("DEBUG_FRAG_SHADER")]

\* Terminal::new: the display
NewDisplay(hl, dimensions) == IF hl THEN NoDisplay ELSE DisplayNew(dimensions)

\* get_program and get_background_program panic on a headless terminal
GetProgramPanics == headless

\* Terminal::get_program
GetProgram == IF ~debug THEN program ELSE debug_program

\* get_background_program handing out the foreground program
GetBackgroundProgramAsForeground == IF ~debug THEN program ELSE debug_program

\* Terminal::get_background_program
GetBackgroundProgram == IF ~debug THEN background_program ELSE debug_program

\* the `if let` without the background mesh
DrawableNoBackground(d, text_buffer) == d.some /\ text_buffer.mesh

\* the `if let` of draw and draw_multiple: display and both meshes are Some
Drawable(d, text_buffer) ==
    d.some /\ text_buffer.mesh /\ text_buffer.background_mesh

\* the aspect-ratio update made whatever text_buffer_aspect_ratio says
BufferAspectAlways(d, text_buffer) ==
    IF text_buffer.aspect_ratio # d.aspect_ratio
    THEN [display |-> [d EXCEPT !.aspect_ratio = text_buffer.aspect_ratio,
                                !.proj_matrix =
                                    CreateProjMatrix(<<d.width, d.height>>,
                                                     text_buffer.aspect_ratio)],
          calls |-> <<Call("update_viewport", <<d.width, d.height>>)>>]
    ELSE [display |-> d, calls |-> <<>>]

\* the aspect-ratio update at the head of the `if let` body
BufferAspect(d, text_buffer) ==
    IF text_buffer_aspect_ratio /\ text_buffer.aspect_ratio # GetAspectRatio(d)
    THEN SetAspectRatio(d, text_buffer.aspect_ratio)
    ELSE [display |-> d, calls |-> <<>>]

\* the two renderer::draw calls, the foreground mesh first
DrawCallsForegroundFirst(d, idx) ==
    <<[fn |-> "draw",
       args |-> <<IF ~debug THEN program ELSE debug_program, d.proj_matrix, now,
                  <<idx, "mesh">>>>],
      [fn |-> "draw",
       args |-> <<IF ~debug THEN background_program ELSE debug_program,
                  d.proj_matrix, now, <<idx, "background_mesh">>>>]>>

\* the two renderer::draw calls of buffer number idx; time is
\* now - since_start and since_start is tick 0
DrawCalls(d, idx) ==
    <<Call("draw", <<GetBackgroundProgram, d.proj_matrix, now, <<idx, "background_mesh">>>>),
      Call("draw", <<GetProgram, d.proj_matrix, now, <<idx, "mesh">>>>)>>

\* the body of the `if let` for buffer number idx; ctx = [display, calls, panicked];
\* draw clears inside the body, draw_multiple before the loop
BufferBody(ctx, text_buffer, idx, clear) ==
    LET sa == BufferAspect(ctx.display, text_buffer)
        pre == ctx.calls \o sa.calls
                 \o (IF clear THEN <<Call("clear", <<>>)>> ELSE <<>>)
    IN  IF GetProgramPanics
        THEN [display |-> sa.display, calls |-> pre, panicked |-> TRUE]
        ELSE [display |-> sa.display, calls |-> pre \o DrawCalls(sa.display, idx),
              panicked |-> FALSE]

\* the loop of draw_multiple clearing for each buffer it draws
RECURSIVE DrawEachClearing(_, _, _)
DrawEachClearing(ctx, text_buffers, idx) ==
    IF idx > Len(text_buffers) \/ ctx.panicked THEN ctx
    ELSE DrawEachClearing(
             IF ctx.display.some /\ text_buffers[idx].mesh
                    /\ text_buffers[idx].background_mesh
             THEN BufferBody(ctx, text_buffers[idx], idx, TRUE)
             ELSE ctx,
             text_buffers, idx + 1)

\* the loop of draw_multiple from buffer number idx on
RECURSIVE DrawEach(_, _, _)
DrawEach(ctx, text_buffers, idx) ==
    IF idx > Len(text_buffers) \/ ctx.panicked THEN ctx
    ELSE DrawEach(IF Drawable(ctx.display, text_buffers[idx])
                  THEN BufferBody(ctx, text_buffers[idx], idx, FALSE)
                  ELSE ctx,
                  text_buffers, idx + 1)

Op(op, buffers, events, flag) ==
    [op |-> op, buffers |-> buffers, events |-> events, flag |-> flag]

-----------------------------------------------------------------------------
(* Font loading state while the terminal runs *)

NoValue == [kind |-> "none"]

FontIdle ==
    /\ description = NoValue
    /\ atlas = NoValue
    /\ fontLoad = NoValue
    /\ fontRaw = NoValue
    /\ lookup = NoValue

-----------------------------------------------------------------------------
(* Operations of Terminal *)

\* TerminalBuilder::build / Terminal::new
TerminalInit ==
    /\ headless \in BOOLEAN
    /\ text_buffer_aspect_ratio \in BOOLEAN
    /\ debug_assertions \in BOOLEAN
    /\ \E dimensions \in InitialDimensions :
           display = NewDisplay(headless, dimensions)
    /\ program = NewPrograms(headless).program
    /\ background_program = NewPrograms(headless).background_program
    /\ debug_program = NewPrograms(headless).debug_program
    /\ debug = FALSE
    /\ running = TRUE
    /\ now = 0
    /\ frame_counter = FrameCounterNew(0)
    /\ lastOp = Op("new", <<>>, <<>>, FALSE)
    /\ calls = <<>>
    /\ ret = FALSE
    /\ panicked = FALSE

Init == TerminalInit /\ FontIdle

\* Terminal::set_debug
SetDebug(flag) ==
    /\ ~panicked
    /\ IF ~headless
       THEN /\ calls' = <<Call("set_debug", <<flag>>)>>
            /\ debug' = flag
       ELSE /\ calls' = <<>>
            /\ debug' = debug
    /\ ret' = FALSE
    /\ lastOp' = Op("set_debug", <<>>, <<>>, flag)
    /\ UNCHANGED <<display, program, background_program, debug_program, running,
                   headless, frame_counter, text_buffer_aspect_ratio,
                   debug_assertions, now, panicked>>
    /\ UNCHANGED fontVars

\* Terminal::refresh reading the toggle key after the events are polled
RefreshPollsFirst(events) ==
    /\ ~panicked
    /\ frame_counter.frames < MaxFrames
    /\ display.some \/ events = <<>>
    /\ frame_counter' = FrameCounterUpdate(frame_counter, now)
    /\ IF display.some
       THEN LET dr == DisplayRefresh(display, events)
                toggle == debug_assertions
                            /\ WasJustPressed(dr.display.input, "F3")
                debug1 == IF toggle THEN ~debug ELSE debug
                post == IF toggle THEN <<Call("set_debug", <<debug1>>)>> ELSE <<>>
            IN  /\ debug' = debug1
                /\ display' = dr.display
                /\ calls' = dr.calls \o post
                /\ ret' = (dr.running /\ running)
       ELSE /\ debug' = debug
            /\ display' = display
            /\ calls' = <<>>
            /\ ret' = running
    /\ lastOp' = Op("refresh", <<>>, events, FALSE)
    /\ UNCHANGED <<program, background_program, debug_program, running, headless,
                   text_buffer_aspect_ratio, debug_assertions, now, panicked>>
    /\ UNCHANGED fontVars

\* Terminal::refresh leaving the display alone once close() was called
RefreshIdleWhenClosed(events) ==
    /\ ~panicked
    /\ frame_counter.frames < MaxFrames
    /\ display.some \/ events = <<>>
    /\ frame_counter' = FrameCounterUpdate(frame_counter, now)
    /\ IF display.some /\ running
       THEN LET toggle == debug_assertions /\ WasJustPressed(display.input, "F3")
                debug1 == IF toggle THEN ~debug ELSE debug
                pre == IF toggle THEN <<Call("set_debug", <<debug1>>)>> ELSE <<>>
                dr == DisplayRefresh(display, events)
            IN  /\ debug' = debug1
                /\ display' = dr.display
                /\ calls' = pre \o dr.calls
                /\ ret' = dr.running
       ELSE /\ debug' = debug
            /\ display' = display
            /\ calls' = <<>>
            /\ ret' = running
    /\ lastOp' = Op("refresh", <<>>, events, FALSE)
    /\ UNCHANGED <<program, background_program, debug_program, running, headless,
                   text_buffer_aspect_ratio, debug_assertions, now, panicked>>
    /\ UNCHANGED fontVars

\* Terminal::refresh, both builds; events are what poll_events delivers
Refresh(events) ==
    /\ ~panicked
    /\ frame_counter.frames < MaxFrames
    /\ display.some \/ events = <<>>
    /\ frame_counter' = FrameCounterUpdate(frame_counter, now)
    /\ IF display.some
       THEN LET toggle == debug_assertions /\ WasJustPressed(display.input, "F3")
                \* set_debug(!debug): headless is false here
                debug1 == IF toggle THEN ~debug ELSE debug
                pre == IF toggle THEN <<Call("set_debug", <<debug1>>)>> ELSE <<>>
                dr == DisplayRefresh(display, events)
            IN  /\ debug' = debug1
                /\ display' = dr.display
                /\ calls' = pre \o dr.calls
                /\ ret' = (dr.running /\ running)
       ELSE /\ debug' = debug
            /\ display' = display
            /\ calls' = <<>>
            /\ ret' = running
    /\ lastOp' = Op("refresh", <<>>, events, FALSE)
    /\ UNCHANGED <<program, background_program, debug_program, running, headless,
                   text_buffer_aspect_ratio, debug_assertions, now, panicked>>
    /\ UNCHANGED fontVars

\* Terminal::draw clearing ahead of the `if let`
DrawClearsFirst(text_buffer) ==
    /\ ~panicked
    /\ LET ctx == [display |-> display, calls |-> <<Call("clear", <<>>)>>,
                   panicked |-> FALSE]
           res == IF Drawable(display, text_buffer)
                  THEN BufferBody(ctx, text_buffer, 1, FALSE)
                  ELSE ctx
       IN  /\ display' = res.display
           /\ calls' = res.calls
           /\ panicked' = res.panicked
    /\ ret' = FALSE
    /\ lastOp' = Op("draw", <<text_buffer>>, <<>>, FALSE)
    /\ UNCHANGED <<program, background_program, debug_program, debug, running,
                   headless, frame_counter, text_buffer_aspect_ratio,
                   debug_assertions, now>>
    /\ UNCHANGED fontVars

\* Terminal::draw
Draw(text_buffer) ==
    /\ ~panicked
    /\ LET ctx == [display |-> display, calls |-> <<>>, panicked |-> FALSE]
           res == IF Drawable(display, text_buffer)
                  THEN BufferBody(ctx, text_buffer, 1, TRUE)
                  ELSE ctx
       IN  /\ display' = res.display
           /\ calls' = res.calls
           /\ panicked' = res.panicked
    /\ ret' = FALSE
    /\ lastOp' = Op("draw", <<text_buffer>>, <<>>, FALSE)
    /\ UNCHANGED <<program, background_program, debug_program, debug, running,
                   headless, frame_counter, text_buffer_aspect_ratio,
                   debug_assertions, now>>
    /\ UNCHANGED fontVars

\* Terminal::draw_multiple
DrawMultiple(text_buffers) ==
    /\ ~panicked
    /\ LET ctx == [display |-> display, calls |-> <<Call("clear", <<>>)>>,
                   panicked |-> FALSE]
           res == DrawEach(ctx, text_buffers, 1)
       IN  /\ display' = res.display
           /\ calls' = res.calls
           /\ panicked' = res.panicked
    /\ ret' = FALSE
    /\ lastOp' = Op("draw_multiple", text_buffers, <<>>, FALSE)
    /\ UNCHANGED <<program, background_program, debug_program, debug, running,
                   headless, frame_counter, text_buffer_aspect_ratio,
                   debug_assertions, now>>
    /\ UNCHANGED fontVars

\* close() toggling the flag instead of clearing it
CloseToggles ==
    /\ ~panicked
    /\ running' = ~running
    /\ ret' = FALSE
    /\ lastOp' = Op("close", <<>>, <<>>, FALSE)
    /\ calls' = <<>>
    /\ UNCHANGED <<display, program, background_program, debug_program, debug,
                   headless, frame_counter, text_buffer_aspect_ratio,
                   debug_assertions, now, panicked>>
    /\ UNCHANGED fontVars

\* Terminal::close
Close ==
    /\ ~panicked
    /\ running' = FALSE
    /\ ret' = FALSE
    /\ lastOp' = Op("close", <<>>, <<>>, FALSE)
    /\ calls' = <<>>
    /\ UNCHANGED <<display, program, background_program, debug_program, debug,
                   headless, frame_counter, text_buffer_aspect_ratio,
                   debug_assertions, now, panicked>>
    /\ UNCHANGED fontVars

\* the wall clock advances; no operation of the terminal runs meanwhile
Tick ==
    /\ ~panicked
    /\ now < MaxTime
    /\ now' = now + 1
    /\ lastOp' = Op("tick", <<>>, <<>>, FALSE)
    /\ calls' = <<>>
    /\ ret' = FALSE
    /\ UNCHANGED <<display, program, background_program, debug_program, debug,
                   running, headless, frame_counter, text_buffer_aspect_ratio,
                   debug_assertions, panicked>>
    /\ UNCHANGED fontVars

ResizeEvents == {e \in Events : e.type = "Resized"}

DoSetDebug == \E flag \in BOOLEAN : SetDebug(flag)
DoRefresh == \E events \in SeqsUpTo(Events, MaxEvents) : Refresh(events)
DoResize == \E events \in SeqsUpTo(ResizeEvents, MaxResizes) : Refresh(events)
DoDraw == \E text_buffer \in TextBuffers : Draw(text_buffer)
DoDrawMultiple == \E text_buffers \in SeqsUpTo(TextBuffers, MaxBuffers) : DrawMultiple(text_buffers)

Next ==
    \/ DoSetDebug
    \/ DoRefresh
    \/ DoDraw
    \/ Close

\* the frame loop: refresh with any events, close, set_debug and draw
Spec == Init /\ [][Next]_vars

NextDraw ==
    \/ DoSetDebug
    \/ DoResize
    \/ DoDraw
    \/ DoDrawMultiple

\* a release build: the F3 toggle is compiled out
InitDraw == Init /\ ~debug_assertions

\* drawing one or several buffers while the window is resized
SpecDraw == InitDraw /\ [][NextDraw]_vars

\* a refresh() whose poll delivers up to MaxResizes events of any kind
DoPoll == \E events \in SeqsUpTo(Events, MaxResizes) : Refresh(events)

NextPoll ==
    \/ DoPoll
    \/ Close

\* the frame loop polling batches of events
SpecPoll == Init /\ [][NextPoll]_vars

NextDrawTimed ==
    \/ DoDraw
    \/ DoDrawMultiple
    \/ Tick

\* drawing while the clock runs
SpecDrawTimed == InitDraw /\ [][NextDrawTimed]_vars

\* a frame of the loop during which the window delivers no event
DoFrame == Refresh(<<>>)

NextClock ==
    \/ DoFrame
    \/ Close
    \/ Tick

\* the frame loop under a running clock
SpecClock == Init /\ [][NextClock]_vars

-----------------------------------------------------------------------------
(* Font loading (src/font.rs) *)

\* the initial value of min_off_y
MinOffYStart == 100000

\* glyph ids of the description; 321 = 65 + 256
CharIds == {65, 66, 321}

\* atlas rectangles <<x, y, width, height>> of a glyph record; the last
\* reaches past the right edge of the atlas
CharRects == {<<0, 0, 2, 2>>, <<2, 1, 2, 3>>, <<3, 0, 2, 1>>}

\* yoffset values of a glyph record
CharYOffsets == {-1, 3, 100001}

\* BMCharacter
BMCharacters ==
    {[id |-> id, x |-> r[1], y |-> r[2], width |-> r[3], height |-> r[4],
      xoffset |-> 2, yoffset |-> yo] :
        id \in CharIds, r \in CharRects, yo \in CharYOffsets}

\* BMFont.chars: a map from glyph id to BMCharacter
CharMaps ==
    UNION {{m \in [ids -> BMCharacters] : \A id \in ids : m[id].id = id} :
              ids \in {S \in SUBSET CharIds : Cardinality(S) <= MaxChars}}

\* what the .sfl text says: the parsed fields, the atlas path it names, and
\* whether the text follows the grammar
Descriptions ==
    {[font_name |-> "Iosevka", line_height |-> 56, size |-> 32, chars |-> m,
      image_path |-> "fonts/iosevka.png", well_formed |-> wf] :
        m \in CharMaps, wf \in BOOLEAN}

\* the png: its header and the decoded frame
Atlases ==
    {[width |-> AtlasWidth, height |-> AtlasHeight, color_type |-> ct,
      bit_depth |-> bd, pixels |-> "iosevka-pixels"] :
        ct \in {"RGBA", "RGB", "GrayscaleAlpha"}, bd \in {8, 16}}

\* png::Info::buffer_size: bytes of one decoded frame
BufferSize(info) ==
    info.width * info.height
        * (CASE info.color_type = "RGBA" -> 4
             [] info.color_type = "RGB" -> 3
             [] OTHER -> 2)
        * (info.bit_depth \div 8)

Panic(message) == [kind |-> "panic", message |-> message]

\* BMFont::from_path: the description with the atlas path it names
FromPath(desc) ==
    IF desc.well_formed
    THEN [kind |-> "ok", font_name |-> desc.font_name, image_path |-> desc.image_path,
          chars |-> desc.chars, line_height |-> desc.line_height, size |-> desc.size]
    ELSE [kind |-> "err"]

\* BMFont::from_loaded(sfl_content, "image.png")
FromLoaded(desc) ==
    IF desc.well_formed
    THEN [kind |-> "ok", font_name |-> desc.font_name, image_path |-> "image.png",
          chars |-> desc.chars, line_height |-> desc.line_height, size |-> desc.size]
    ELSE [kind |-> "err"]

\* the orders in which bm_font.chars.iter() may yield the ids in ids
IterOrders(ids) ==
    {o \in [1..Cardinality(ids) -> ids] : \A i, j \in DOMAIN o : i # j => o[i] # o[j]}

\* a key as wide as the id
AsU8Wide(key) == key

\* `*key as u8`
AsU8(key) == key % 256

\* the CharacterData built from one BMCharacter, width and height exchanged
CharacterDataTransposed(value, info) ==
    [id |-> value.id,
     x1 |-> <<value.x, info.width>>,
     x2 |-> <<value.x + value.width, info.width>>,
     y1 |-> <<value.y, info.height>>,
     y2 |-> <<value.y + value.height, info.height>>,
     width |-> value.height,
     height |-> value.width,
     x_off |-> value.xoffset,
     y_off |-> value.yoffset]

\* the CharacterData built from one BMCharacter
CharacterData(value, info) ==
    [id |-> value.id,
     x1 |-> <<value.x, info.width>>,
     x2 |-> <<value.x + value.width, info.width>>,
     y1 |-> <<value.y, info.height>>,
     y2 |-> <<value.y + value.height, info.height>>,
     width |-> value.width,
     height |-> value.height,
     x_off |-> value.xoffset,
     y_off |-> value.yoffset]

\* HashMap::insert
MapInsert(m, key, value) ==
    [k \in DOMAIN m \cup {key} |-> IF k = key THEN value ELSE m[k]]

\* the glyph loop over the ids in iteration order, from position i on;
\* acc = [characters, min_off_y]
RECURSIVE GlyphLoop(_, _, _, _, _)
GlyphLoop(acc, chars, info, order, i) ==
    IF i > Len(order) THEN acc
    ELSE LET key == order[i]
             value == chars[key]
         IN  GlyphLoop([characters |-> MapInsert(acc.characters, AsU8(key),
                                                 CharacterData(value, info)),
                        min_off_y |-> IF value.yoffset < acc.min_off_y
                                      THEN value.yoffset ELSE acc.min_off_y],
                       chars, info, order, i + 1)

\* the name field of the Font
FontNameFromImagePath(bm_font) == bm_font.image_path

FontName(bm_font) == bm_font.font_name

\* Font::load_with_bmfont_and_image_read accepting any colour type
LoadWithBmfontAndImageReadAnyColor(bm_font, image, order) ==
    IF BufferSize(image) # image.width * image.height * 4
    THEN Panic("Font image is deformed")
    ELSE LET acc == GlyphLoop([characters |-> <<>>, min_off_y |-> MinOffYStart],
                              bm_font.chars, image, order, 1)
         IN  [kind |-> "font",
              name |-> FontName(bm_font),
              image_buffer |-> [len |-> BufferSize(image), pixels |-> image.pixels],
              width |-> image.width,
              height |-> image.height,
              line_height |-> bm_font.line_height,
              size |-> bm_font.size,
              min_offset_y |-> acc.min_off_y,
              characters |-> acc.characters]

\* Font::load_with_bmfont_and_image_read, the chars iterated in `order`
LoadWithBmfontAndImageRead(bm_font, image, order) ==
    IF image.color_type # "RGBA" THEN Panic("Font color type is not RGBA")
    ELSE IF BufferSize(image) # image.width * image.height * 4
    THEN Panic("Font image is deformed")
    ELSE LET acc == GlyphLoop([characters |-> <<>>, min_off_y |-> MinOffYStart],
                              bm_font.chars, image, order, 1)
         IN  [kind |-> "font",
              name |-> FontName(bm_font),
              image_buffer |-> [len |-> BufferSize(image), pixels |-> image.pixels],
              width |-> image.width,
              height |-> image.height,
              line_height |-> bm_font.line_height,
              size |-> bm_font.size,
              min_offset_y |-> acc.min_off_y,
              characters |-> acc.characters]

\* Font::load(fnt_path): the description is the file at fnt_path and the
\* atlas the file at the image path it names
LoadFont(desc, image, order) ==
    LET bm_font == FromPath(desc)
    IN  IF bm_font.kind = "err" THEN Panic("Failed to load .sfl file")
        ELSE LoadWithBmfontAndImageRead(bm_font, image, order)

\* Font::load_raw(sfl_content, image_read)
LoadFontRaw(desc, image, order) ==
    LET bm_font == FromLoaded(desc)
    IN  IF bm_font.kind = "err" THEN Panic("Failed to load .sfl file")
        ELSE LoadWithBmfontAndImageRead(bm_font, image, order)

\* a font description and its atlas, nothing loaded yet; the terminal the
\* font is meant for is headless, as in the examples of font.rs
InitFont ==
    /\ TerminalInit
    /\ headless
    /\ text_buffer_aspect_ratio
    /\ ~debug_assertions
    /\ description \in Descriptions
    /\ atlas \in Atlases
    /\ fontLoad = NoValue
    /\ fontRaw = NoValue
    /\ lookup = NoValue

\* a call of Font::load
Load ==
    /\ \E order \in IterOrders(DOMAIN description.chars) :
           fontLoad' = LoadFont(description, atlas, order)
    /\ UNCHANGED <<description, atlas, fontRaw, lookup>>
    /\ UNCHANGED termVars

\* a call of Font::load_raw
LoadRaw ==
    /\ \E order \in IterOrders(DOMAIN description.chars) :
           fontRaw' = LoadFontRaw(description, atlas, order)
    /\ UNCHANGED <<description, atlas, fontLoad, lookup>>
    /\ UNCHANGED termVars

NextFont ==
    \/ Load
    \/ LoadRaw

\* the chars looked up: 'A', 'B', 'C' and U+0141, whose code is 65 + 256
Chars == {65, 66, 67, 321}

\* Font::get_character looking the code point up as it is
GetCharacterByCodePoint(font, character) ==
    IF character \in DOMAIN font.characters
    THEN [kind |-> "ok", data |-> font.characters[character]]
    ELSE [kind |-> "err", message |-> <<"Character not found", character>>]

\* Font::get_character
GetCharacter(font, character) ==
    LET character_code == AsU8(character)
    IN  IF character_code \in DOMAIN font.characters
        THEN [kind |-> "ok", data |-> font.characters[character_code]]
        ELSE [kind |-> "err", message |-> <<"Character not found", character_code>>]

\* a call of get_character on the Font that Font::load returned; &self
DoGetCharacter ==
    /\ fontLoad # NoValue
    /\ fontLoad.kind = "font"
    /\ \E character \in Chars :
           lookup' = [character |-> character,
                      result |-> GetCharacter(fontLoad, character)]
    /\ UNCHANGED <<description, atlas, fontLoad, fontRaw>>
    /\ UNCHANGED termVars

NextGlyph ==
    \/ Load
    \/ DoGetCharacter

\* loading a font and looking glyphs up in it
SpecGlyph == InitFont /\ [][NextGlyph]_vars

\* loading one description and atlas through both entry points
SpecFont == InitFont /\ [][NextFont]_vars

-----------------------------------------------------------------------------
(* Properties of the frame loop *)

IsDrawOp(op) == op.op \in {"draw", "draw_multiple"}

PolledClosed(op) ==
    op.op = "refresh" /\ \E i \in DOMAIN op.events : op.events[i].type = "Closed"

PolledResized(op) ==
    op.op = "refresh" /\ \E i \in DOMAIN op.events : op.events[i].type = "Resized"

\* the fields of Terminal, without the observation variables
terminalFields == <<display, program, background_program, debug_program, debug,
                    running, headless, frame_counter, text_buffer_aspect_ratio>>

\* the positions in cs of the renderer::draw calls for buffer number idx
DrawsOf(cs, idx) == {i \in DOMAIN cs : cs[i].fn = "draw" /\ cs[i].args[4][1] = idx}

CallsOf(cs, fn) == {i \in DOMAIN cs : cs[i].fn = fn}

Flushed(text_buffer) == text_buffer.mesh /\ text_buffer.background_mesh

\* C1: close() clears the running flag, the flag never comes back, every
\* refresh() made while it is clear returns false (so every refresh() after
\* a close() does, whatever operations and events come between), and a
\* close() made while it is clear changes no field of the Terminal.
C1_CloseIsFinal ==
    [][ /\ (lastOp'.op = "close" => ~running')
        /\ (~running => ~running')
        /\ (~running /\ lastOp'.op = "refresh" => ~ret')
        /\ (~running /\ lastOp'.op = "close" => UNCHANGED terminalFields)
      ]_vars

\* a terminal with a display that was closed and then refreshed with an event
C1_Witness ==
    /\ display.some
    /\ ~running
    /\ lastOp.op = "refresh"
    /\ lastOp.events # <<>>
    /\ ~ret

\* C2: once a refresh() has polled a Closed event, the refresh() that
\* follows returns false, whatever it polls.
C2_ClosedEventLatches ==
    [][ (PolledClosed(lastOp) /\ ~ret /\ lastOp'.op = "refresh") => ~ret' ]_vars

\* C3: the stored projection matrix is create_proj_matrix of the current
\* window width, height and target aspect ratio.
C3_ProjMatrixConsistent ==
    display.some =>
        display.proj_matrix =
            CreateProjMatrix(<<display.width, display.height>>, display.aspect_ratio)

\* the window was resized and a draw changed the target ratio, and the matrix
\* is not the one the display was built with
C3_Witness ==
    /\ display.some
    /\ IsDrawOp(lastOp)
    /\ <<display.width, display.height>> = <<2, 2>>
    /\ display.aspect_ratio = <<2, 1>>
    /\ CallsOf(calls, "update_viewport") # {}
    /\ display.proj_matrix # CreateProjMatrix(<<4, 2>>, <<2, 1>>)

\* C4 as stated: a draw, the only caller of set_aspect_ratio, never issues
\* the viewport-update call.
C4_NoViewportCallFromAspect ==
    IsDrawOp(lastOp) => CallsOf(calls, "update_viewport") = {}

\* C4 amended: set_aspect_ratio, reached from draw, updates the ratio and the
\* projection matrix and does issue the viewport-update call, always with the
\* window width and height, which it leaves as they were: every draw that
\* changes the ratio issues the call, and one that does not change it issues
\* none; a refresh issues the call, once and with the new size, exactly when
\* it polled a Resized event, and only then do width and height change.
C4_ViewportCallKeepsSize ==
    /\ [][ (IsDrawOp(lastOp') /\ display.some) =>
             /\ display'.width = display.width
             /\ display'.height = display.height
             /\ \A i \in CallsOf(calls', "update_viewport") :
                    calls'[i].args = <<display.width, display.height>>
             /\ (display'.aspect_ratio # display.aspect_ratio
                    => /\ CallsOf(calls', "update_viewport") # {}
                       /\ display'.proj_matrix =
                            CreateProjMatrix(<<display.width, display.height>>,
                                             display'.aspect_ratio))
             /\ (Len(lastOp'.buffers) = 1 /\ display'.aspect_ratio = display.aspect_ratio
                    => CallsOf(calls', "update_viewport") = {})
      ]_vars
    /\ [][ (lastOp'.op = "refresh" /\ display.some) =>
             IF PolledResized(lastOp')
             THEN \E i \in DOMAIN calls' :
                      /\ CallsOf(calls', "update_viewport") = {i}
                      /\ calls'[i].args = <<display'.width, display'.height>>
             ELSE /\ CallsOf(calls', "update_viewport") = {}
                  /\ display'.width = display.width
                  /\ display'.height = display.height
      ]_vars

\* a draw on a 4 x 2 window changed the ratio and issued update_viewport(4, 2)
C4_Witness ==
    /\ display.some
    /\ lastOp.op = "draw"
    /\ display.aspect_ratio = <<1, 1>>
    /\ <<display.width, display.height>> = <<4, 2>>
    /\ \E i \in DOMAIN calls : calls[i] = Call("update_viewport", <<4, 2>>)

\* C5: a draw or draw_multiple raises no error; a buffer lacking a mesh gets
\* no draw call and leaves ratio and matrix alone (the display is unchanged
\* when no buffer of the call has both meshes, and otherwise the ratio is
\* unchanged or that of the last buffer having both); on a terminal with a
\* display every buffer of the call that has both meshes gets its two draw
\* calls.
C5_UnflushedSkipped ==
    [][ IsDrawOp(lastOp') =>
          LET bufs == lastOp'.buffers
              flushed == {i \in DOMAIN bufs : Flushed(bufs[i])}
          IN  /\ ~panicked'
              /\ \A i \in DOMAIN bufs \ flushed : DrawsOf(calls', i) = {}
              /\ (flushed = {} => display' = display)
              /\ (flushed # {} /\ display.some =>
                    \/ display'.aspect_ratio = display.aspect_ratio
                    \/ \E i \in flushed :
                          /\ \A j \in flushed : j <= i
                          /\ display'.aspect_ratio = bufs[i].aspect_ratio)
              /\ (display.some =>
                    \A i \in flushed : Cardinality(DrawsOf(calls', i)) = 2)
      ]_vars

\* draw_multiple on a 2:1 display, given a buffer of ratio 1:1 without meshes
\* and then a flushed one of ratio 2:1: only the second is drawn
C5_Witness ==
    /\ display.some
    /\ text_buffer_aspect_ratio
    /\ lastOp.op = "draw_multiple"
    /\ Len(lastOp.buffers) = 2
    /\ ~Flushed(lastOp.buffers[1])
    /\ lastOp.buffers[1].aspect_ratio # display.aspect_ratio
    /\ Flushed(lastOp.buffers[2])
    /\ DrawsOf(calls, 1) = {}
    /\ Cardinality(DrawsOf(calls, 2)) = 2

\* C6: draw and draw_multiple on a headless terminal fail.
C6_HeadlessDrawFails ==
    (headless /\ IsDrawOp(lastOp)) => panicked

\* C7: no renderer::draw call carries program handle 0, and a headless
\* terminal, whose three handles are 0, issues no renderer::draw call at all.
C7_NoPlaceholderProgramDrawn ==
    /\ \A i \in CallsOf(calls, "draw") : calls[i].args[1] # 0
    /\ (headless => CallsOf(calls, "draw") = {})
    /\ (headless => program = 0 /\ background_program = 0 /\ debug_program = 0)

\* a headless terminal was asked to draw a flushed buffer
C7_Witness ==
    /\ headless
    /\ program = 0
    /\ lastOp.op = "draw"
    /\ Flushed(lastOp.buffers[1])
    /\ CallsOf(calls, "draw") = {}

-----------------------------------------------------------------------------
(* Properties of the font loader *)

IsFont(f) == f.kind = "font"

\* a <= b for fractions <<n, d>> with d > 0
FracLeq(a, b) == a[1] * b[2] <= b[1] * a[2]

Glyphs(f) == {f.characters[k] : k \in DOMAIN f.characters}

\* the ids of the description are pairwise distinct modulo 256
NoKeyCollision(desc) ==
    \A a, b \in DOMAIN desc.chars : AsU8(a) = AsU8(b) => a = b

SetMin(S) == CHOOSE m \in S : \A x \in S : m <= x

C9_UvWithinUnitSquare ==
    \A f \in {fontLoad, fontRaw} :
        (f # NoValue /\ IsFont(f)) =>
            \A g \in Glyphs(f) :
                /\ FracLeq(g.x1, g.x2)
                /\ FracLeq(g.y1, g.y2)
                /\ \A b \in {g.x1, g.x2, g.y1, g.y2} :
                       FracLeq(<<0, 1>>, b) /\ FracLeq(b, <<1, 1>>)

\* C10: min_offset_y of a loaded font with at least one glyph is the minimum
\* y_off over the glyphs of the font.
C10_MinOffsetIsMinimum ==
    \A f \in {fontLoad, fontRaw} :
        (f # NoValue /\ IsFont(f) /\ Glyphs(f) # {}) =>
            f.min_offset_y = SetMin({g.y_off : g \in Glyphs(f)})


Loaded == {f \in {fontLoad, fontRaw} : f # NoValue}

\* C11: a load returns a Font only for an RGBA atlas whose decoded buffer is
\* exactly width * height * 4 bytes; for any other atlas the load panics and
\* yields no Font; every Font returned holds width * height * 4 bytes
C11_OnlyRgbaOfExactSize ==
    \A f \in Loaded :
        /\ f.kind \in {"font", "panic"}
        /\ IsFont(f) =>
              /\ atlas.color_type = "RGBA"
              /\ BufferSize(atlas) = atlas.width * atlas.height * 4
              /\ f.width = atlas.width /\ f.height = atlas.height
              /\ f.image_buffer.len = f.width * f.height * 4
        /\ (atlas.color_type # "RGBA"
              \/ BufferSize(atlas) # atlas.width * atlas.height * 4) =>
              /\ f.kind = "panic"
              /\ DOMAIN f = {"kind", "message"}

\* an atlas of four bytes a pixel that is not RGBA has been refused
C11_Witness ==
    /\ fontLoad # NoValue
    /\ fontLoad.kind = "panic"
    /\ description.well_formed
    /\ atlas.color_type = "GrayscaleAlpha"
    /\ BufferSize(atlas) = atlas.width * atlas.height * 4


-----------------------------------------------------------------------------
(* The frame counter *)

\* ticks since the checkpoint of the frame counter
Elapsed == now - frame_counter.last_check

\* C12 as stated: after N calls of update() counted within the second, the
\* value published once the second has passed is N
C12_FpsReportsCallsBefore ==
    [][(lastOp'.op = "refresh" /\ Elapsed > TicksPerSecond) =>
          GetFps(frame_counter') = frame_counter.frames]_vars

\* C12: get_fps() is 0 until the first commit; a call of update() made while
\* no more than one second has passed leaves get_fps() as it was and adds one
\* to the tally; the first call made after more than one second counts itself,
\* so that after N earlier calls get_fps() reports N + 1 and the tally is 0;
\* time passing, close() and nothing else but update() change the counter
C12_FpsReportsCallsWithCommit ==
    /\ [](frame_counter.last_check = 0 => GetFps(frame_counter) = 0)
    /\ [][lastOp'.op = "refresh" =>
             IF Elapsed > TicksPerSecond
             THEN /\ GetFps(frame_counter') = frame_counter.frames + 1
                  /\ frame_counter'.frames = 0
             ELSE /\ GetFps(frame_counter') = GetFps(frame_counter)
                  /\ frame_counter'.frames = frame_counter.frames + 1]_vars
    /\ [][lastOp'.op # "refresh" => frame_counter' = frame_counter]_vars

\* two calls counted within the second and a third one after it: 3 published
C12_Witness ==
    /\ lastOp.op = "refresh"
    /\ frame_counter.last_check = now
    /\ frame_counter.frames = 0
    /\ GetFps(frame_counter) = 3

\* C20 as stated: update() commits on every call made when at least one
\* second has passed, exactly one second included
C20_CommitsFromOneSecond ==
    [][(lastOp'.op = "refresh" /\ Elapsed >= TicksPerSecond) =>
          /\ frame_counter'.frames = 0
          /\ frame_counter'.last_check = now]_vars

\* C20: update() commits (fps := tally, tally := 0, checkpoint := now) on
\* every call made when more than one second has passed since the checkpoint
\* and on no other call: at exactly one second, and below, it only counts
C20_CommitsAfterOneSecond ==
    [][lastOp'.op = "refresh" =>
          IF Elapsed > TicksPerSecond
          THEN frame_counter' = [frames |-> 0, last_check |-> now,
                                 fps |-> frame_counter.frames + 1]
          ELSE frame_counter' = [frames |-> frame_counter.frames + 1,
                                 last_check |-> frame_counter.last_check,
                                 fps |-> frame_counter.fps]]_vars

\* update() has just run exactly one second after the checkpoint and has not
\* committed
C20_Witness ==
    /\ lastOp.op = "refresh"
    /\ Elapsed = TicksPerSecond
    /\ frame_counter.frames >= 1


-----------------------------------------------------------------------------
(* Glyph lookup *)

\* the step is a call of get_character
IsLookup == lookup' # lookup

\* C13 as stated: get_character(c) returns the error exactly when the glyph
\* table has no entry under the character code of c
C13_ErrIffNoEntryForCode ==
    [][IsLookup =>
          (lookup'.result.kind = "err"
              <=> lookup'.character \notin DOMAIN fontLoad.characters)]_vars

\* C13: get_character(c) returns the error exactly when the glyph table has
\* no entry under the character code of c reduced to one byte (c mod 256), and
\* otherwise the metrics stored under that byte; it returns in either case and
\* leaves the Font as it was, for every c, code points above 255 included
C13_ErrIffNoEntryForByte ==
    [][IsLookup =>
          LET c == lookup'.character
              r == lookup'.result
          IN  /\ r.kind \in {"ok", "err"}
              /\ r.kind = "err" <=> AsU8(c) \notin DOMAIN fontLoad.characters
              /\ r.kind = "ok" => r.data = fontLoad.characters[AsU8(c)]
              /\ fontLoad' = fontLoad
              /\ ~panicked']_vars

\* U+0141 has been looked up in a font described with 'A' only, and the
\* glyph of 'A', stored under byte 65, has been returned
C13_Witness ==
    /\ lookup # NoValue
    /\ lookup.character = 321
    /\ lookup.result.kind = "ok"
    /\ lookup.result.data.id = 65
    /\ IsFont(fontLoad)
    /\ DOMAIN description.chars = {65}

\* the glyph entries whose record is the one of glyph id `id`
EntriesOf(f, id) == {k \in DOMAIN f.characters : f.characters[k].id = id}

\* get_character(id) returns the metrics of record `value`
ReturnsRecord(f, id, value) ==
    LET r == GetCharacter(f, id)
    IN  /\ r.kind = "ok"
        /\ r.data.id = value.id
        /\ r.data.width = value.width
        /\ r.data.height = value.height
        /\ r.data.x_off = value.xoffset
        /\ r.data.y_off = value.yoffset

\* one entry a record, as many entries as records, each found by its code
OneEntryPerRecord(f, desc) ==
    /\ \A id \in DOMAIN desc.chars : Cardinality(EntriesOf(f, id)) = 1
    /\ Cardinality(DOMAIN f.characters) = Cardinality(DOMAIN desc.chars)
    /\ \A id \in DOMAIN desc.chars : ReturnsRecord(f, id, desc.chars[id])

\* C14 as stated: after a successful load every character code of the
\* description has exactly one glyph entry, there are as many entries as
\* records, and get_character of a code returns that code's record
C14_OneEntryPerRecord ==
    IsFont(fontLoad) => OneEntryPerRecord(fontLoad, description)

\* C14: after a successful load of a description whose character codes are
\* pairwise distinct modulo 256, every code has exactly one glyph entry (under
\* the code reduced to one byte), there are as many entries as records, and
\* get_character of a code returns that code's record with id, width, height,
\* x offset and y offset unchanged
C14_OneEntryPerRecordNoCollision ==
    (IsFont(fontLoad) /\ NoKeyCollision(description)) =>
        OneEntryPerRecord(fontLoad, description)

\* a font of two glyphs, one of them with a code above 255, has been loaded
\* and the glyph of that code looked up
C14_Witness ==
    /\ IsFont(fontLoad)
    /\ NoKeyCollision(description)
    /\ Cardinality(DOMAIN description.chars) = 2
    /\ lookup # NoValue
    /\ lookup.character = 321
    /\ lookup.result.kind = "ok"
    /\ lookup.result.data.id = 321
    /\ lookup.result.data.height = 3


-----------------------------------------------------------------------------
(* The backend calls of draw and draw_multiple *)

\* the buffers of the operation that have both meshes
FlushedOf(op) == {i \in DOMAIN op.buffers : Flushed(op.buffers[i])}

\* the buffers of the operation that were drawn
DrawnOf(op) == IF display.some THEN FlushedOf(op) ELSE {}

\* C15: every buffer drawn by draw() or draw_multiple() gets exactly two
\* draw calls, next to each other, the background mesh before the foreground
\* mesh, both with the same projection matrix and the same elapsed time, which
\* is the clock reading of the call; the calls of buffer i come before those
\* of every later buffer; a buffer that is not drawn gets none
C15_BackgroundThenForeground ==
    IsDrawOp(lastOp) =>
        /\ \A i \in DrawnOf(lastOp) :
              \E p \in DOMAIN calls :
                  /\ DrawsOf(calls, i) = {p, p + 1}
                  /\ p + 1 \in DOMAIN calls
                  /\ calls[p].args[4] = <<i, "background_mesh">>
                  /\ calls[p + 1].args[4] = <<i, "mesh">>
                  /\ calls[p].args[2] = calls[p + 1].args[2]
                  /\ calls[p].args[3] = calls[p + 1].args[3]
                  /\ calls[p].args[3] = now
        /\ \A i, j \in DrawnOf(lastOp) :
              i < j => \A p \in DrawsOf(calls, i), q \in DrawsOf(calls, j) : p < q
        /\ \A i \in DOMAIN lastOp.buffers \ DrawnOf(lastOp) : DrawsOf(calls, i) = {}

\* draw_multiple has drawn two buffers some time after the start
C15_Witness ==
    /\ lastOp.op = "draw_multiple"
    /\ DrawnOf(lastOp) = {1, 2}
    /\ Cardinality(CallsOf(calls, "draw")) = 4
    /\ now > 0

\* C16: the program of every draw call follows the debug flag: with the flag
\* set both the background and the foreground call carry debug_program,
\* without it the background call carries background_program and the
\* foreground call program
C16_ProgramFollowsDebugFlag ==
    IsDrawOp(lastOp) =>
        \A p \in CallsOf(calls, "draw") :
            calls[p].args[1] =
                IF debug THEN debug_program
                ELSE IF calls[p].args[4][2] = "background_mesh"
                     THEN background_program
                     ELSE program

\* a buffer drawn in debug mode, and the three handles differ
C16_Witness ==
    /\ IsDrawOp(lastOp)
    /\ debug
    /\ CallsOf(calls, "draw") # {}
    /\ Cardinality({program, background_program, debug_program}) = 3

\* C17: draw_multiple clears exactly once, as its first backend call and so
\* before every draw call, for zero, one or several buffers, flushed or not,
\* with or without a display
C17_DrawMultipleClearsOnce ==
    lastOp.op = "draw_multiple" =>
        /\ CallsOf(calls, "clear") = {1}
        /\ \A p \in CallsOf(calls, "draw") : 1 < p

\* two buffers drawn by one draw_multiple
C17_Witness ==
    /\ lastOp.op = "draw_multiple"
    /\ DrawnOf(lastOp) = {1, 2}
    /\ Cardinality(CallsOf(calls, "draw")) = 4
    /\ Cardinality(CallsOf(calls, "clear")) = 1

\* C18 as stated: every draw(buffer) clears exactly once, before its draw
\* calls
C18_DrawClearsOnce ==
    lastOp.op = "draw" =>
        /\ Cardinality(CallsOf(calls, "clear")) = 1
        /\ \A c \in CallsOf(calls, "clear"), p \in CallsOf(calls, "draw") : c < p

\* C18: a draw(buffer) that draws (the terminal has a display and the buffer
\* both meshes) clears exactly once, after the aspect-ratio update if there
\* is one and before its two draw calls; a draw(buffer) that draws nothing
\* issues no backend call at all, and so does not clear
C18_DrawClearsOnceWhenDrawing ==
    lastOp.op = "draw" =>
        IF DrawnOf(lastOp) = {1}
        THEN /\ Cardinality(CallsOf(calls, "clear")) = 1
             /\ Cardinality(CallsOf(calls, "draw")) = 2
             /\ \A c \in CallsOf(calls, "clear") :
                   /\ \A p \in CallsOf(calls, "draw") : c < p
                   /\ \A v \in CallsOf(calls, "update_viewport") : v < c
        ELSE calls = <<>>

\* draw of a flushed buffer whose ratio differs: viewport update, clear, two
\* draw calls
C18_Witness ==
    /\ lastOp.op = "draw"
    /\ DrawnOf(lastOp) = {1}
    /\ Len(calls) = 4
    /\ calls[1].fn = "update_viewport"
    /\ calls[2].fn = "clear"

\* the last buffer drawn by the operation
LastDrawn(op) == CHOOSE i \in DrawnOf(op) : \A j \in DrawnOf(op) : j <= i

\* C19: with text_buffer_aspect_ratio on, the two draw calls of every drawn
\* buffer carry the projection matrix of the current window size and that
\* buffer's aspect ratio, and after the operation the target ratio is that of
\* the last buffer drawn; with it off, draw and draw_multiple change neither
\* the target ratio nor the projection matrix
C19_AspectFromBuffer ==
    /\ []((IsDrawOp(lastOp) /\ text_buffer_aspect_ratio) =>
            /\ \A i \in DrawnOf(lastOp) : \A p \in DrawsOf(calls, i) :
                  calls[p].args[2] =
                      CreateProjMatrix(<<display.width, display.height>>,
                                       lastOp.buffers[i].aspect_ratio)
            /\ DrawnOf(lastOp) # {} =>
                  display.aspect_ratio =
                      lastOp.buffers[LastDrawn(lastOp)].aspect_ratio)
    /\ [][(IsDrawOp(lastOp') /\ ~text_buffer_aspect_ratio) =>
             /\ display' = display
             /\ CallsOf(calls', "update_viewport") = {}]_vars

\* draw_multiple of a 1:1 and then a 2:1 buffer, each drawn under its own
\* matrix, after the window was resized
C19_Witness ==
    /\ lastOp.op = "draw_multiple"
    /\ text_buffer_aspect_ratio
    /\ DrawnOf(lastOp) = {1, 2}
    /\ lastOp.buffers[1].aspect_ratio = <<1, 1>>
    /\ lastOp.buffers[2].aspect_ratio = <<2, 1>>
    /\ <<display.width, display.height>> = <<2, 2>>
    /\ Cardinality(CallsOf(calls, "update_viewport")) = 2
    /\ \A p \in DrawsOf(calls, 1), q \in DrawsOf(calls, 2) :
          calls[p].args[2] # calls[q].args[2]


-----------------------------------------------------------------------------
(* refresh: the debug toggle and the events *)

\* the events of the operation that press `keycode`
PressesOf(op, keycode) ==
    {i \in DOMAIN op.events :
        /\ op.events[i].type = "KeyboardInput"
        /\ op.events[i].keycode = keycode
        /\ op.events[i].pressed}

\* the step is a refresh() of a debug build on a terminal with a display
IsDebugRefresh == lastOp'.op = "refresh" /\ display.some /\ debug_assertions

\* C21 as stated: an F3 press polled by a refresh(), the key being up and no
\* earlier press pending, flips debug before that call returns
C21_PressFlipsInSameRefresh ==
    [][(/\ IsDebugRefresh
        /\ PressesOf(lastOp', "F3") # {}
        /\ "F3" \notin display.input.pressed
        /\ "F3" \notin display.input.just_pressed) => debug' # debug]_vars

\* C21: in a debug build with a display, refresh() advances the frame
\* counter, then evaluates the toggle on the input state the earlier polls
\* left, then polls: debug flips in a refresh() exactly when an F3 press is
\* pending from the poll of the refresh() before; a press polled while the
\* key is up becomes pending for the next refresh() and does not flip debug
\* in the call that polls it; a press is pending for one refresh() only
C21_PressFlipsInNextRefresh ==
    [][IsDebugRefresh =>
          /\ frame_counter' = FrameCounterUpdate(frame_counter, now)
          /\ debug' = IF WasJustPressed(display.input, "F3") THEN ~debug ELSE debug
          /\ WasJustPressed(display.input, "F3") =>
                /\ calls'[1] = Call("set_debug", <<~debug>>)
                /\ calls'[2].fn = "swap_buffers"
          /\ (PressesOf(lastOp', "F3") # {} /\ "F3" \notin display.input.pressed) =>
                WasJustPressed(display'.input, "F3")
          /\ WasJustPressed(display'.input, "F3") => PressesOf(lastOp', "F3") # {}
      ]_vars

\* a refresh() that polled nothing has switched debug on: the press came
\* with the refresh() before
C21_Witness ==
    /\ lastOp.op = "refresh"
    /\ lastOp.events = <<>>
    /\ debug_assertions
    /\ display.some
    /\ debug
    /\ Len(calls) = 2
    /\ calls[1] = Call("set_debug", <<TRUE>>)
    /\ "F3" \in display.input.pressed


\* the positions of the events of the given type
EventsOf(events, type) == {i \in DOMAIN events : events[i].type = type}

\* the last event of the given type; there is one
LastEvent(events, type) ==
    events[CHOOSE i \in EventsOf(events, type) :
               \A j \in EventsOf(events, type) : j <= i]

\* C22: after close(), a refresh() on a terminal with a display still
\* advances the frame counter, swaps and polls: a Resized event it polls sets
\* the window size and the projection matrix and updates the viewport, a key
\* event reaches the input state; and it returns false
C22_ClosedRefreshStillPolls ==
    [][(lastOp'.op = "refresh" /\ ~running /\ display.some) =>
          LET events == lastOp'.events
          IN  /\ frame_counter' = FrameCounterUpdate(frame_counter, now)
              /\ ~ret'
              /\ CallsOf(calls', "swap_buffers") # {}
              /\ EventsOf(events, "Resized") # {} =>
                    LET dims == LastEvent(events, "Resized").dims
                    IN  /\ <<display'.width, display'.height>> = dims
                        /\ display'.proj_matrix =
                              CreateProjMatrix(dims, display'.aspect_ratio)
                        /\ \E p \in CallsOf(calls', "update_viewport") :
                              calls'[p].args = dims
              /\ EventsOf(events, "KeyboardInput") # {} =>
                    LET e == LastEvent(events, "KeyboardInput")
                    IN  (e.keycode \in display'.input.pressed) <=> e.pressed
      ]_vars

\* a closed terminal whose refresh() polled a resize to 2 x 2 and took it
C22_Witness ==
    /\ ~running
    /\ display.some
    /\ lastOp.op = "refresh"
    /\ EventsOf(lastOp.events, "Resized") # {}
    /\ <<display.width, display.height>> = <<2, 2>>
    /\ frame_counter.frames > 0
    /\ ~ret


-----------------------------------------------------------------------------
(* The keys of the glyph table *)

\* the ids of the description reduced to one byte
TruncatedIds(desc) == {id % 256 : id \in DOMAIN desc.chars}

\* C23: the glyph table of a loaded Font is keyed by id mod 256: its keys are
\* the ids of the description reduced to one byte, one entry for each distinct
\* reduced id, so that records with congruent ids share one entry, which holds
\* one of them; and get_character reduces the char to one byte as well: c and
\* c mod 256 get the same answer, found under the key c mod 256
C23_KeyedByTruncatedId ==
    IsFont(fontLoad) =>
        /\ DOMAIN fontLoad.characters = TruncatedIds(description)
        /\ Cardinality(DOMAIN fontLoad.characters)
              = Cardinality(TruncatedIds(description))
        /\ \A k \in DOMAIN fontLoad.characters :
              /\ k \in 0..255
              /\ \E id \in DOMAIN description.chars :
                    /\ id % 256 = k
                    /\ fontLoad.characters[k]
                          = CharacterData(description.chars[id], atlas)
        /\ \A c \in Chars :
              /\ GetCharacter(fontLoad, c) = GetCharacter(fontLoad, c % 256)
              /\ GetCharacter(fontLoad, c).kind = "ok"
                    <=> c % 256 \in DOMAIN fontLoad.characters
              /\ GetCharacter(fontLoad, c).kind = "ok" =>
                    GetCharacter(fontLoad, c).data = fontLoad.characters[c % 256]

\* a description with the ids 65 and 321 gave a table of one entry, and the
\* lookup of U+0141 returned it
C23_Witness ==
    /\ IsFont(fontLoad)
    /\ DOMAIN description.chars = {65, 321}
    /\ DOMAIN fontLoad.characters = {65}
    /\ lookup # NoValue
    /\ lookup.character = 321
    /\ lookup.result.kind = "ok"
    /\ lookup.result.data = fontLoad.characters[65]


-----------------------------------------------------------------------------
(* Display::refresh and the window size *)

\* C24: when the poll of a refresh() yields Resized events, the display
\* stores the size of the last of them, recomputes the projection matrix
\* from it and the unchanged target ratio, and updates the viewport once,
\* with that size and after the buffer swap; when the poll yields no Resized
\* event, width, height, target ratio and projection matrix stay and no
\* viewport update is issued
C24_LastResizeWins ==
    [][(lastOp'.op = "refresh" /\ display.some) =>
          LET events == lastOp'.events
              views == CallsOf(calls', "update_viewport")
          IN  /\ display'.aspect_ratio = display.aspect_ratio
              /\ IF EventsOf(events, "Resized") = {}
                 THEN /\ display'.width = display.width
                      /\ display'.height = display.height
                      /\ display'.proj_matrix = display.proj_matrix
                      /\ views = {}
                 ELSE LET dims == LastEvent(events, "Resized").dims
                      IN  /\ <<display'.width, display'.height>> = dims
                          /\ display'.proj_matrix =
                                CreateProjMatrix(dims, display.aspect_ratio)
                          /\ views = {Len(calls')}
                          /\ calls'[Len(calls')].args = dims
                          /\ \A s \in CallsOf(calls', "swap_buffers") :
                                s < Len(calls')
      ]_vars

\* one poll delivered a resize to 4 x 2 and then one to 2 x 2; the window is
\* 2 x 2 and the viewport was updated once
C24_Witness ==
    /\ lastOp.op = "refresh"
    /\ display.some
    /\ Len(lastOp.events) = 2
    /\ lastOp.events[1].type = "Resized"
    /\ lastOp.events[1].dims = <<4, 2>>
    /\ lastOp.events[2].type = "Resized"
    /\ lastOp.events[2].dims = <<2, 2>>
    /\ <<display.width, display.height>> = <<2, 2>>
    /\ Cardinality(CallsOf(calls, "update_viewport")) = 1

=============================================================================
